---------------------------- MODULE Spec2Model ----------------------------
(***************************************************************************)
(* Model of urban_api: the territory hierarchy (logic/territories.py) and  *)
(* the project / project-territory pair (logic/projects.py).               *)
(*                                                                         *)
(* The database is the state.  A request handler is a session that walks   *)
(* through its statements, one step per awaited statement or commit, so    *)
(* that the committed rows another request can read are a state of the     *)
(* model.  Read-only queries are operators over the committed rows.        *)
(***************************************************************************)
EXTENDS Integers, FiniteSets, Sequences, Bags, TLC

\* ------------------------------------------------------------------ bounds
\* Values the territory id sequence may hand out (ids 1..MaxTerritoryId).
MaxTerritoryId == 3
\* Territory types 1..MaxTerritoryType.
MaxTerritoryType == 2

\* SQL NULL / Python None, kept apart from every id (ids are >= 0).
NULL == -1

VARIABLES
    territories,        \* committed rows of territories_data
    territory_id_seq,   \* last value handed out by the territory_id sequence
    sess,               \* per session: position in add_territory_to_db and its locals
    sessions,           \* the sessions that issue requests in this run
    projects_data,              \* committed rows of projects_data
    projects_territory_data,    \* committed rows of projects_territory_data
    project_id_seq,             \* last value of project_id_seq
    project_territory_id_seq,   \* last value of project_territory_id_seq
    now,                        \* the clock read by datetime.now()
    conn,                       \* the connection of the project request in progress
    reader,     \* a second connection running get_project_territory_by_id_from_db
    args,       \* the arguments of a read-only call
    result      \* what that call returned or raised

\* The territory side and the project side of the state.
tvars == <<territories, territory_id_seq, sess, sessions>>
pvars == <<projects_data, projects_territory_data, project_id_seq,
           project_territory_id_seq, now, conn>>
qvars == <<reader, args, result>>
vars == <<tvars, pvars, qvars>>

\* ------------------------------------------------------- SQL comparisons
\* column == value as SQLAlchemy renders it: "== None" becomes IS NULL, and a
\* comparison of a NULL column with a value is never true.
SqlEq(col, val) ==
    IF val = NULL THEN col = NULL ELSE col # NULL /\ col = val

\* Python truthiness of a scalar() result: None and 0 are falsy.
Truthy(v) == v # NULL /\ v # 0

\* Result.scalar() / first(): the first column of the first row, or None.
\* Rows are keyed by territory_id, so at most one row matches an id.
ScalarId(rows) ==
    IF rows = {} THEN NULL ELSE (CHOOSE r \in rows : TRUE).territory_id

\* --------------------------------------------------------- territory rows
TerritoryTypeIds == 1..MaxTerritoryType
TerritoryIds == 1..MaxTerritoryId

\* TerritoriesDataPost.parent_id: an optional integer; 0 stands for "no parent".
ParentIdValues == {NULL, 0} \cup TerritoryIds

TerritoryRow(id, spec) ==
    [territory_id |-> id,
     territory_type_id |-> spec.territory_type_id,
     parent_id |-> spec.parent_id]

TerritoriesDataPost ==
    [territory_type_id : TerritoryTypeIds, parent_id : ParentIdValues]

\* select(territories_data).where(territories_data.c.territory_id == id)
SelectById(rows, id) == {r \in rows : SqlEq(r.territory_id, id)}

\* get_territory_by_id_from_db: the row, or 404 "Given id is not found".
get_territory_by_id_from_db(rows, territory_id) ==
    LET found == SelectById(rows, territory_id)
    IN  IF found = {} THEN [status |-> "404_id", row |-> NULL]
        ELSE [status |-> "ok", row |-> CHOOSE r \in found : TRUE]


\* ------------------------------------------- get_territories_by_parent_id
\* Lines 455-459: for a non-zero parent_id the parent row is selected and
\* scalar() (its territory_id) must be truthy, else 404.
ParentIdIsFound(rows, parent_id) ==
    Truthy(ScalarId(SelectById(rows, parent_id)))

\* .where(territories_data.c.parent_id == parent_id)
SelectByParent(rows, parent_id) ==
    {r \in rows : SqlEq(r.parent_id, parent_id)}

\* A bag with every multiplicity multiplied by k (a cross join with k rows).
Scale(B, k) == [e \in {x \in DOMAIN B : k > 0} |-> B[e] * k]

\* Lines 461-491: WITH RECURSIVE territories_recursive, evaluated as the
\* database does: the seed is the working table; each round joins
\* territories_data to the working table on parent_id = territory_id, appends
\* the new rows (UNION ALL keeps duplicates) and makes them the working table;
\* it stops when a round produces no row.  A row has one parent, so a round
\* never produces a row twice and the working table is a set.  In a table of
\* n rows without a parent cycle no chain is longer than n, so a working table
\* that is still non-empty after n rounds comes from a cycle and the
\* statement never finishes: status "diverges".
RECURSIVE territories_recursive(_, _, _, _)
territories_recursive(rows, working, acc, fuel) ==
    IF working = {} THEN [status |-> "ok", rows |-> acc]
    ELSE IF fuel = 0 THEN [status |-> "diverges", rows |-> acc]
    ELSE LET recursive_part ==
                 {r \in rows :
                    \E w \in working : SqlEq(r.parent_id, w.territory_id)}
         IN  territories_recursive(rows, recursive_part,
                                   acc (+) SetToBag(recursive_part), fuel - 1)

\* Lines 462-493: select(cte_statement) with the seed of line 473.
SelectRecursive(rows, parent_id) ==
    LET seed == SelectByParent(rows, parent_id)
    IN  territories_recursive(rows, seed, SetToBag(seed), Cardinality(rows))

\* Mutant of line 461: the recursive statement is built at the root too.
UsesRecursiveStatement_AtRootToo(parent_id, get_all_levels) ==
    get_all_levels

\* Line 461: which statement is built.
UsesRecursiveStatement(parent_id, get_all_levels) ==
    get_all_levels /\ parent_id # 0

\* Lines 509-510 on the recursive statement: the predicate names
\* territories_data, which is not in the FROM list of select(cte_statement),
\* so the table is added to FROM and every CTE row is paired with every
\* territories_data row of that type.
FilterRecursiveByType(rows, res, territory_type_id) ==
    IF territory_type_id = NULL \/ res.status # "ok" THEN res
    ELSE [status |-> "ok",
          rows |-> Scale(res.rows,
                         Cardinality({t \in rows :
                            SqlEq(t.territory_type_id, territory_type_id)}))]

\* Lines 509-510 on the plain statement: a filter on the selected rows.
FilterByType(selected, territory_type_id) ==
    IF territory_type_id = NULL THEN selected
    ELSE {r \in selected : SqlEq(r.territory_type_id, territory_type_id)}

\* get_territories_by_parent_id_from_db: [status, rows], rows the bag of
\* rows the statement yields.
get_territories_by_parent_id_from_db(rows, parent_id, get_all_levels, territory_type_id) ==
    IF parent_id # 0 /\ ~ParentIdIsFound(rows, parent_id)
    THEN [status |-> "404_parent", rows |-> EmptyBag]
    ELSE IF UsesRecursiveStatement(parent_id, get_all_levels)
    THEN FilterRecursiveByType(rows, SelectRecursive(rows, parent_id),
                               territory_type_id)
    ELSE [status |-> "ok",
          rows |-> SetToBag(FilterByType(SelectByParent(rows, parent_id),
                                         territory_type_id))]

\* get_territories_without_geometry_by_parent_id_from_db (lines 517-578).
\* In the recursive branch the seed selects 8 columns (lines 533-542) and the
\* recursive part 10 (lines 544-554): union_all of the two is rejected, so
\* that branch ends in an error.
get_territories_without_geometry_by_parent_id_from_db(rows, parent_id, get_all_levels) ==
    IF parent_id # 0 /\ ~ParentIdIsFound(rows, parent_id)
    THEN [status |-> "404_parent", rows |-> EmptyBag]
    ELSE IF UsesRecursiveStatement(parent_id, get_all_levels)
    THEN [status |-> "error", rows |-> EmptyBag]
    ELSE [status |-> "ok", rows |-> SetToBag(SelectByParent(rows, parent_id))]

\* ------------------------------------------------- add_territory_to_db
\* The locals of one add_territory_to_db call.  `before` is the committed
\* table when the call started (used only to state what the call changed).
IdleSession ==
    [pc |-> "idle",
     territory |-> [territory_type_id |-> 1, parent_id |-> 0],
     territory_id |-> NULL,
     result |-> "none",
     before |-> {}]

\* Line 127: `territory.parent_id != 0` (None != 0 is True in Python).
NeedsParentCheck(territory) == territory.parent_id # 0

\* Lines 128-130: select the parent by id in the committed table; first().
ParentFound(rows, territory) ==
    SelectById(rows, territory.parent_id) # {}

\* Lines 112-123: insert(...).returning(territory_id) is executed: the
\* sequence hands out the id; the row is not yet visible to other sessions.
AddInsert(s) ==
    /\ sess[s].pc = "idle"
    /\ territory_id_seq < MaxTerritoryId
    /\ \E territory \in TerritoriesDataPost :
         sess' = [sess EXCEPT ![s] =
                    [pc |-> "inserted",
                     territory |-> territory,
                     territory_id |-> territory_id_seq + 1,
                     result |-> "none",
                     before |-> territories]]
    /\ territory_id_seq' = territory_id_seq + 1
    /\ UNCHANGED <<territories, sessions, pvars, qvars>>

\* Line 125: session.commit() publishes the inserted row.
AddCommit(s) ==
    /\ sess[s].pc = "inserted"
    /\ territories' = territories \cup
                        {TerritoryRow(sess[s].territory_id, sess[s].territory)}
    /\ sess' = [sess EXCEPT ![s].pc = "check_parent"]
    /\ UNCHANGED <<territory_id_seq, sessions, pvars, qvars>>

\* Lines 127-130 and 138: the parent check after the commit; when it passes
\* (or is skipped) the call returns get_territory_by_id_from_db(territory_id).
AddCheckParent(s) ==
    /\ sess[s].pc = "check_parent"
    /\ IF NeedsParentCheck(sess[s].territory)
          /\ ~ParentFound(territories, sess[s].territory)
       THEN sess' = [sess EXCEPT ![s].pc = "compensate"]
       ELSE sess' = [sess EXCEPT
                       ![s].pc = "idle",
                       ![s].result =
                          get_territory_by_id_from_db(
                              territories, sess[s].territory_id).status]
    /\ UNCHANGED <<territories, territory_id_seq, sessions, pvars, qvars>>

\* Lines 131-132: the compensating delete is executed (not yet committed).
AddDelete(s) ==
    /\ sess[s].pc = "compensate"
    /\ sess' = [sess EXCEPT ![s].pc = "deleted"]
    /\ UNCHANGED <<territories, territory_id_seq, sessions, pvars, qvars>>

\* Lines 134-136: commit of the delete, then 404 "Given parent_id is not found".
AddCommitDelete(s) ==
    /\ sess[s].pc = "deleted"
    /\ territories' = {r \in territories :
                         ~SqlEq(r.territory_id, sess[s].territory_id)}
    /\ sess' = [sess EXCEPT ![s].pc = "idle", ![s].result = "404_parent"]
    /\ UNCHANGED <<territory_id_seq, sessions, pvars, qvars>>

\* ================================================================ projects
\* Both project sequences hand out 1..MaxProjectId.
MaxProjectId == 2
\* Clock values: a request starts at a later time than the one before it.
MaxNow == 3

\* Two distinct values for every field of a request body.
Versions == {1, 2}

\* --------------------------------------------------------------- Geometry
\* Geometry(type, coordinates) of schemas/geometries.py; sequences are
\* 1-based here, so coordinates[0] of the source is coordinates[1].
Ring(v) == << <<0, 0>>, <<0, v>>, <<v, v>>, <<0, 0>> >>
PolygonOf(v) == [type |-> "Polygon", coordinates |-> << Ring(v) >>]
PointOf(v) == [type |-> "Point", coordinates |-> <<v, v>>]

\* Geometry.as_shapely_geometry: the shapely object built per tag.
\* geom.Polygon(coordinates[0]) keeps the first ring only; geom.MultiPolygon
\* reads each element as (shell, holes).
as_shapely_geometry(g) ==
    CASE g.type = "Point" ->
           [geom_type |-> "Point", coords |-> g.coordinates]
      [] g.type = "Polygon" ->
           [geom_type |-> "Polygon", exterior |-> g.coordinates[1]]
      [] g.type = "MultiPolygon" ->
           [geom_type |-> "MultiPolygon",
            geoms |-> [i \in DOMAIN g.coordinates |->
                         [exterior |-> g.coordinates[i][1],
                          holes |-> IF Len(g.coordinates[i]) > 1
                                    THEN g.coordinates[i][2] ELSE <<>>]]]
      [] g.type = "LineString" ->
           [geom_type |-> "LineString", coords |-> g.coordinates]

\* Geometry.from_shapely_geometry: the Geometry built per shapely class.
\* Point takes coords[0]; Polygon and MultiPolygon take the exterior ring of
\* each polygon and nothing else; LineString takes coords.
from_shapely_geometry(geometry) ==
    CASE geometry.geom_type = "Point" ->
           [type |-> "Point", coordinates |-> geometry.coords]
      [] geometry.geom_type = "Polygon" ->
           [type |-> "Polygon", coordinates |-> << geometry.exterior >>]
      [] geometry.geom_type = "MultiPolygon" ->
           [type |-> "MultiPolygon",
            coordinates |-> [i \in DOMAIN geometry.geoms |->
                               << geometry.geoms[i].exterior >>]]
      [] geometry.geom_type = "LineString" ->
           [type |-> "LineString", coordinates |-> geometry.coords]

\* The geometries the conversions are tried on: coordinates 0..MaxCoord,
\* closed rings, polygons with and without an interior ring.
MaxCoord == 2

Positions == {<<x, y>> : x \in 0..MaxCoord, y \in 0..MaxCoord}
Rings == {Ring(v) : v \in 1..MaxCoord}
PolygonCoordinates ==
    {<<shell>> : shell \in Rings}
      \cup {<<shell, hole>> : shell \in Rings, hole \in Rings}

Geometries ==
    {[type |-> "Point", coordinates |-> c] : c \in Positions}
      \cup {[type |-> "LineString", coordinates |-> <<a, b>>] :
               a \in Positions, b \in Positions}
      \cup {[type |-> "Polygon", coordinates |-> c] :
               c \in PolygonCoordinates}
      \cup {[type |-> "MultiPolygon", coordinates |-> <<c>>] :
               c \in PolygonCoordinates}
      \cup {[type |-> "MultiPolygon", coordinates |-> <<c, d>>] :
               c \in PolygonCoordinates, d \in PolygonCoordinates}

\* ST_GeomFromText(str(shape), text("4326")): the stored geometry value.
ST_GeomFromText(shape) == [srid |-> 4326, shape |-> shape]

\* cast(ST_AsGeoJSON(column), JSONB): the stored value read back as GeoJSON.
ST_AsGeoJSON(stored) ==
    LET shape == stored.shape
    IN  CASE shape.geom_type = "Point" ->
               [type |-> "Point", coordinates |-> shape.coords]
          [] shape.geom_type = "Polygon" ->
               [type |-> "Polygon", coordinates |-> << shape.exterior >>]
          [] shape.geom_type = "MultiPolygon" ->
               [type |-> "MultiPolygon",
                coordinates |-> [i \in DOMAIN shape.geoms |->
                                   << shape.geoms[i].exterior >>
                                     \o shape.geoms[i].holes]]
          [] shape.geom_type = "LineString" ->
               [type |-> "LineString", coordinates |-> shape.coords]

\* ------------------------------------------------------------ the tables
ProjectIds == 1..MaxProjectId

\* A database state: the two tables of the user_projects schema.
Database(projects, details) == [projects |-> projects, details |-> details]

Committed == Database(projects_data, projects_territory_data)

\* ForeignKey(projects_territory_data.project_territory_id) on
\* projects_territory_data.parent_id (nullable).
ParentFkHolds(db) ==
    \A d \in db.details :
        d.parent_id = NULL
        \/ \E p \in db.details : p.project_territory_id = d.parent_id

\* ForeignKey(projects_territory_data.project_territory_id) on
\* projects_data.project_territory_id.
ProjectFkHolds(db) ==
    \A pr \in db.projects :
        \E d \in db.details : d.project_territory_id = pr.project_territory_id

\* Foreign keys are checked at the end of every statement.
ConstraintsHold(db) == ParentFkHolds(db) /\ ProjectFkHolds(db)

\* --------------------------------------------------------- request bodies
\* ProjectPost / ProjectPut: every field given; version v picks the values.
ProjectBody(v, parent_id) ==
    [user_id |-> v,
     name |-> v,
     description |-> IF v = 1 THEN NULL ELSE v,
     public |-> (v = 1),
     image_url |-> IF v = 1 THEN v ELSE NULL,
     project_territory_info |->
        [parent_id |-> parent_id,
         geometry |-> PolygonOf(v),
         centre_point |-> PointOf(v),
         properties |-> v]]

ProjectPost ==
    {ProjectBody(v, par) : v \in Versions, par \in {NULL} \cup ProjectIds}

\* ------------------------------------------------------------- statements
\* Lines 17-27: the values of the insert into projects_territory_data.
TerritoryValues(info) ==
    [parent_id |-> info.parent_id,
     geometry |-> ST_GeomFromText(as_shapely_geometry(info.geometry)),
     centre_point |-> ST_GeomFromText(as_shapely_geometry(info.centre_point)),
     properties |-> info.properties]

TerritoryDetailRow(id, values) ==
    [project_territory_id |-> id,
     parent_id |-> values.parent_id,
     geometry |-> values.geometry,
     centre_point |-> values.centre_point,
     properties |-> values.properties]

\* Mutant of line 36: the project references the detail named as parent.
ProjectRow_ReferencesParent(id, project, project_territory_id, time) ==
    [project_id |-> id,
     user_id |-> project.user_id,
     name |-> project.name,
     project_territory_id |-> project.project_territory_info.parent_id,
     description |-> project.description,
     public |-> project.public,
     image_url |-> project.image_url,
     created_at |-> time,
     updated_at |-> time]

\* Lines 31-43: the row of the insert into projects_data.
ProjectRow(id, project, project_territory_id, time) ==
    [project_id |-> id,
     user_id |-> project.user_id,
     name |-> project.name,
     project_territory_id |-> project_territory_id,
     description |-> project.description,
     public |-> project.public,
     image_url |-> project.image_url,
     created_at |-> time,
     updated_at |-> time]

\* select(projects_data).where(projects_data.c.project_id == project_id)
SelectProject(db, project_id) ==
    {pr \in db.projects : SqlEq(pr.project_id, project_id)}

SelectDetail(db, project_territory_id) ==
    {d \in db.details : SqlEq(d.project_territory_id, project_territory_id)}

\* get_project_by_id_from_db: mappings().one() or 404.
get_project_by_id_from_db(db, project_id) ==
    LET found == SelectProject(db, project_id)
    IN  IF Cardinality(found) # 1
        THEN [status |-> "404_project", rows |-> {}]
        ELSE [status |-> "ok", rows |-> found]

\* The columns selected at lines 85-91.
ProjectTerritoryDTO(d) ==
    [project_territory_id |-> d.project_territory_id,
     parent_id |-> d.parent_id,
     geometry |-> ST_AsGeoJSON(d.geometry),
     centre_point |-> ST_AsGeoJSON(d.centre_point),
     properties |-> d.properties]

\* Lines 85-97: the detail lookup uses one_or_none(); a miss gives None, on
\* which ProjectTerritoryDTO(**None) raises TypeError, and only more than one
\* row raises inside the try.
ProjectTerritoryResult(db, project_territory_id) ==
    LET details == SelectDetail(db, project_territory_id)
    IN  IF Cardinality(details) > 1
        THEN [status |-> "404_territory", rows |-> {}]
        ELSE IF details = {}
        THEN [status |-> "type_error", rows |-> {}]
        ELSE [status |-> "ok",
              rows |-> {ProjectTerritoryDTO(d) : d \in details}]

\* get_project_territory_by_id_from_db on one snapshot of the database: the
\* project lookup (lines 79-83) uses one() and turns a miss into 404.
get_project_territory_by_id_from_db(db, project_id) ==
    LET found == SelectProject(db, project_id)
    IN  IF Cardinality(found) # 1
        THEN [status |-> "404_project", rows |-> {}]
        ELSE ProjectTerritoryResult(
                 db, (CHOOSE x \in found : TRUE).project_territory_id)

\* ------------------------------------------------------- the connection
\* The locals of the project request in progress.  tx is what the
\* connection's transaction sees (the committed rows plus its own uncommitted
\* changes); before is the committed database when the request started.
IdleConn ==
    [pc |-> "idle",
     op |-> "none",
     project_id |-> NULL,
     project |-> ProjectBody(1, NULL),
     project_territory_id |-> NULL,
     tx |-> Database({}, {}),
     result |-> "none",
     returned |-> {},
     before |-> Database({}, {}),
     time |-> 0]

\* A request starts on a fresh connection at the next clock value.
Started(op, project_id, project) ==
    [IdleConn EXCEPT
       !.op = op,
       !.project_id = project_id,
       !.project = project,
       !.tx = Committed,
       !.before = Committed,
       !.time = now + 1]

\* An exception leaves the handler before its commit: the connection is
\* closed and its transaction rolled back.
Raised(c, error) ==
    [c EXCEPT !.pc = "idle", !.result = error, !.returned = {}, !.tx = c.before]

\* The handler returns what get_project_by_id_from_db gives on its connection.
Returned(c, got) ==
    [c EXCEPT !.pc = "idle", !.result = got.status, !.returned = got.rows]

\* conn.commit(): the transaction's view becomes the committed database.
Commit ==
    /\ projects_data' = conn.tx.projects
    /\ projects_territory_data' = conn.tx.details

\* ----------------------------------------------------- post_project_to_db
\* Lines 17-29: insert into projects_territory_data, returning the row.
PostInsertTerritory ==
    /\ conn.pc = "idle"
    /\ now < MaxNow
    /\ project_territory_id_seq < MaxProjectId
    /\ \E project \in ProjectPost :
         LET id == project_territory_id_seq + 1
             row == TerritoryDetailRow(
                        id, TerritoryValues(project.project_territory_info))
             tx == Database(projects_data, projects_territory_data \cup {row})
             c == [Started("post", NULL, project) EXCEPT
                     !.project_territory_id = id]
         IN  conn' = IF ConstraintsHold(tx)
                     THEN [c EXCEPT !.pc = "post_territory_inserted", !.tx = tx]
                     ELSE Raised(c, "integrity_error")
    /\ project_territory_id_seq' = project_territory_id_seq + 1
    /\ now' = now + 1
    /\ UNCHANGED <<projects_data, projects_territory_data, project_id_seq, tvars, qvars>>

\* Lines 31-45: insert into projects_data, referencing the detail row.
PostInsertProject ==
    /\ conn.pc = "post_territory_inserted"
    /\ LET id == project_id_seq + 1
           row == ProjectRow(id, conn.project, conn.project_territory_id,
                             conn.time)
           tx == Database(conn.tx.projects \cup {row}, conn.tx.details)
       IN  conn' = IF ConstraintsHold(tx)
                   THEN [conn EXCEPT !.pc = "post_project_inserted",
                                     !.project_id = id, !.tx = tx]
                   ELSE Raised(conn, "integrity_error")
    /\ project_id_seq' = project_id_seq + 1
    /\ UNCHANGED <<projects_data, projects_territory_data,
                   project_territory_id_seq, now, tvars, qvars>>

\* Line 47.
PostCommit ==
    /\ conn.pc = "post_project_inserted"
    /\ Commit
    /\ conn' = [conn EXCEPT !.pc = "post_committed"]
    /\ UNCHANGED <<project_id_seq, project_territory_id_seq, now, tvars, qvars>>

\* Line 49.
PostReturn ==
    /\ conn.pc = "post_committed"
    /\ conn' = Returned(conn, get_project_by_id_from_db(conn.tx,
                                                        conn.project_id))
    /\ UNCHANGED <<projects_data, projects_territory_data, project_id_seq,
                   project_territory_id_seq, now, tvars, qvars>>

\* -------------------------------------------------- delete_project_from_db
\* Lines 104-108: the project is selected; one_or_none() or 404.
DeleteSelect ==
    /\ conn.pc = "idle"
    /\ now < MaxNow
    /\ \E project_id \in ProjectIds :
         LET c == Started("delete", project_id, IdleConn.project)
             found == SelectProject(Committed, project_id)
         IN  conn' = IF found = {}
                     THEN Raised(c, "404_project")
                     ELSE [c EXCEPT
                             !.pc = "delete_selected",
                             !.project_territory_id =
                                (CHOOSE pr \in found : TRUE).project_territory_id]
    /\ now' = now + 1
    /\ UNCHANGED <<projects_data, projects_territory_data, project_id_seq,
                   project_territory_id_seq, tvars, qvars>>

\* Mutant of lines 116-119: the project delete is committed on its own.
DeleteProjectRow_Committed ==
    /\ conn.pc = "delete_selected"
    /\ LET tx == Database({pr \in conn.tx.projects :
                             ~SqlEq(pr.project_id, conn.project_id)},
                          conn.tx.details)
       IN  /\ conn' = [conn EXCEPT !.pc = "delete_project_deleted", !.tx = tx]
           /\ projects_data' = tx.projects
           /\ projects_territory_data' = tx.details
    /\ UNCHANGED <<project_id_seq, project_territory_id_seq, now, tvars, qvars>>

\* Line 116: statement_for_project is executed.
DeleteProjectRow ==
    /\ conn.pc = "delete_selected"
    /\ LET tx == Database({pr \in conn.tx.projects :
                             ~SqlEq(pr.project_id, conn.project_id)},
                          conn.tx.details)
       IN  conn' = IF ConstraintsHold(tx)
                   THEN [conn EXCEPT !.pc = "delete_project_deleted", !.tx = tx]
                   ELSE Raised(conn, "integrity_error")
    /\ UNCHANGED <<projects_data, projects_territory_data, project_id_seq,
                   project_territory_id_seq, now, tvars, qvars>>

\* Mutant of line 117: the detail row is left in place.
DeleteTerritoryRow_Skipped ==
    /\ conn.pc = "delete_project_deleted"
    /\ conn' = [conn EXCEPT !.pc = "delete_territory_deleted"]
    /\ UNCHANGED <<projects_data, projects_territory_data, project_id_seq,
                   project_territory_id_seq, now, tvars, qvars>>

\* Line 117: statement_for_territory is executed; it fails when a row still
\* references the detail row.
DeleteTerritoryRow ==
    /\ conn.pc = "delete_project_deleted"
    /\ LET tx == Database(conn.tx.projects,
                          {d \in conn.tx.details :
                             ~SqlEq(d.project_territory_id,
                                    conn.project_territory_id)})
       IN  conn' = IF ConstraintsHold(tx)
                   THEN [conn EXCEPT !.pc = "delete_territory_deleted", !.tx = tx]
                   ELSE Raised(conn, "integrity_error")
    /\ UNCHANGED <<projects_data, projects_territory_data, project_id_seq,
                   project_territory_id_seq, now, tvars, qvars>>

\* Line 119; the handler returns None.
DeleteCommit ==
    /\ conn.pc = "delete_territory_deleted"
    /\ Commit
    /\ conn' = [conn EXCEPT !.pc = "idle", !.result = "ok", !.returned = {}]
    /\ UNCHANGED <<project_id_seq, project_territory_id_seq, now, tvars, qvars>>

\* ----------------------------------------------------- put_project_to_db
ProjectPut == ProjectPost

\* A row with the named columns set to the given values.
UpdateRow(row, columns, values) ==
    [f \in DOMAIN row |-> IF f \in columns THEN values[f] ELSE row[f]]

\* update(projects_territory_data).where(project_territory_id == id).values(...)
UpdateDetail(db, id, columns, values) ==
    Database(db.projects,
             {IF SqlEq(d.project_territory_id, id)
              THEN UpdateRow(d, columns, values) ELSE d : d \in db.details})

\* update(projects_data).where(project_id == id).values(...)
UpdateProject(db, id, columns, values) ==
    Database({IF SqlEq(pr.project_id, id)
              THEN UpdateRow(pr, columns, values) ELSE pr : pr \in db.projects},
             db.details)

DetailColumns == {"parent_id", "geometry", "centre_point", "properties"}
ProjectColumns == {"user_id", "name", "description", "public", "image_url"}

\* Lines 126-129 (and 171-174): the project is selected; one_or_none() or 404.
SelectRequested(c) ==
    LET found == SelectProject(Committed, c.project_id)
    IN  IF found = {}
        THEN Raised(c, "404_project")
        ELSE [c EXCEPT
                !.project_territory_id =
                   (CHOOSE pr \in found : TRUE).project_territory_id]

PutSelect ==
    /\ conn.pc = "idle"
    /\ now < MaxNow
    /\ \E project_id \in ProjectIds, project \in ProjectPut :
         LET c == SelectRequested(Started("put", project_id, project))
         IN  conn' = IF c.result = "none"
                     THEN [c EXCEPT !.pc = "put_selected"] ELSE c
    /\ now' = now + 1
    /\ UNCHANGED <<projects_data, projects_territory_data, project_id_seq,
                   project_territory_id_seq, tvars, qvars>>

\* Lines 131-144: every column of the detail row is overwritten.
PutUpdateTerritory ==
    /\ conn.pc = "put_selected"
    /\ LET tx == UpdateDetail(conn.tx, conn.project_territory_id, DetailColumns,
                     TerritoryValues(conn.project.project_territory_info))
       IN  conn' = IF ConstraintsHold(tx)
                   THEN [conn EXCEPT !.pc = "put_territory_updated", !.tx = tx]
                   ELSE Raised(conn, "integrity_error")
    /\ UNCHANGED <<projects_data, projects_territory_data, project_id_seq,
                   project_territory_id_seq, now, tvars, qvars>>

\* Mutant of line 155: updated_at is not part of the update.
PutUpdateProject_KeepsUpdatedAt ==
    /\ conn.pc = "put_territory_updated"
    /\ LET values == [f \in ProjectColumns |-> conn.project[f]]
           tx == UpdateProject(conn.tx, conn.project_id, ProjectColumns, values)
       IN  conn' = [conn EXCEPT !.pc = "put_project_updated", !.tx = tx]
    /\ UNCHANGED <<projects_data, projects_territory_data, project_id_seq,
                   project_territory_id_seq, now, tvars, qvars>>

\* Lines 146-159: the project columns and updated_at are overwritten.
PutUpdateProject ==
    /\ conn.pc = "put_territory_updated"
    /\ LET values == [f \in ProjectColumns \cup {"updated_at"} |->
                        IF f = "updated_at" THEN conn.time ELSE conn.project[f]]
           tx == UpdateProject(conn.tx, conn.project_id,
                               ProjectColumns \cup {"updated_at"}, values)
       IN  conn' = [conn EXCEPT !.pc = "put_project_updated", !.tx = tx]
    /\ UNCHANGED <<projects_data, projects_territory_data, project_id_seq,
                   project_territory_id_seq, now, tvars, qvars>>

\* Line 161.
PutCommit ==
    /\ conn.pc = "put_project_updated"
    /\ Commit
    /\ conn' = [conn EXCEPT !.pc = "put_committed"]
    /\ UNCHANGED <<project_id_seq, project_territory_id_seq, now, tvars, qvars>>

\* Line 163.
PutReturn ==
    /\ conn.pc = "put_committed"
    /\ conn' = Returned(conn, get_project_by_id_from_db(conn.tx,
                                                        conn.project_id))
    /\ UNCHANGED <<projects_data, projects_territory_data, project_id_seq,
                   project_territory_id_seq, now, tvars, qvars>>

\* --------------------------------------------------- patch_project_to_db
\* ProjectPatch: `present` are the project fields whose value is not None;
\* project_territory_info is given or not, with the fields set explicitly in
\* it (model_dump(exclude_unset=True)) and those of them set to None.
TerritoryPartial(given, fields_set, null_fields) ==
    [given |-> given, fields_set |-> fields_set, null_fields |-> null_fields]

PatchBody(present, partial, v, parent_id) ==
    [present |-> present,
     values |-> [user_id |-> v, name |-> v, description |-> v,
                 public |-> (v = 1), image_url |-> v],
     partial |-> partial,
     info |-> [parent_id |-> parent_id,
               geometry |-> PolygonOf(v),
               centre_point |-> PointOf(v),
               properties |-> v]]

NoTerritoryChange ==
    {TerritoryPartial(FALSE, {}, {}), TerritoryPartial(TRUE, {}, {})}

TerritoryPartials ==
    NoTerritoryChange \cup
    {TerritoryPartial(TRUE, {"geometry"}, {}),
     TerritoryPartial(TRUE, {"geometry"}, {"geometry"}),
     TerritoryPartial(TRUE, {"parent_id"}, {}),
     TerritoryPartial(TRUE, {"parent_id"}, {"parent_id"}),
     TerritoryPartial(TRUE, {"centre_point", "properties"}, {})}

\* The request bodies tried: one side changed, or name with geometry, or
\* nothing at all.
ProjectPatch ==
    LET all == {PatchBody(present, partial, v, par) :
                   present \in {{}, {"name"}, ProjectColumns},
                   partial \in TerritoryPartials,
                   v \in Versions,
                   par \in ProjectIds}
    IN  {b \in all :
           /\ \/ b.info.parent_id = 1
              \/ "parent_id" \in b.partial.fields_set \ b.partial.null_fields
           /\ \/ b.present = {}
              \/ b.partial \in NoTerritoryChange
              \/ /\ b.present = {"name"}
                 /\ b.partial = TerritoryPartial(TRUE, {"geometry"}, {})}

\* Mutant of line 184: every field of a given project_territory_info is
\* applied, set or not (model_dump without exclude_unset).
new_values_for_territory_Unset(project) ==
    IF project.partial.given THEN DetailColumns ELSE {}

\* Lines 176-181: the fields whose value is not None.
new_values_for_project(project) == project.present

\* Lines 183-194: the columns named in new_values_for_territory.
new_values_for_territory(project) ==
    IF project.partial.given THEN project.partial.fields_set ELSE {}

\* Lines 185-194: geometry and centre_point are converted when not None;
\* every other set field, None included, is passed as it is.
PatchTerritoryValues(project) ==
    [f \in DetailColumns |->
        IF f \in project.partial.null_fields THEN NULL
        ELSE IF f \in {"geometry", "centre_point"}
        THEN ST_GeomFromText(as_shapely_geometry(project.info[f]))
        ELSE project.info[f]]

\* nullable=False on geometry, centre_point and properties.
NotNullColumns == {"geometry", "centre_point", "properties"}

PatchSelect ==
    /\ conn.pc = "idle"
    /\ now < MaxNow
    /\ \E project_id \in ProjectIds, project \in ProjectPatch :
         LET c == SelectRequested(Started("patch", project_id, project))
         IN  conn' = IF c.result = "none"
                     THEN [c EXCEPT !.pc = "patch_selected"] ELSE c
    /\ now' = now + 1
    /\ UNCHANGED <<projects_data, projects_territory_data, project_id_seq,
                   project_territory_id_seq, tvars, qvars>>

\* Mutant of line 196: the update of projects_data runs even when nothing
\* is set, and then writes updated_at alone.
PatchUpdateProject_Unconditional ==
    /\ conn.pc = "patch_selected"
    /\ LET columns == new_values_for_project(conn.project)
           values == [f \in columns \cup {"updated_at"} |->
                        IF f = "updated_at" THEN conn.time
                        ELSE conn.project.values[f]]
           tx == UpdateProject(conn.tx, conn.project_id,
                               columns \cup {"updated_at"}, values)
       IN  conn' = [conn EXCEPT !.pc = "patch_project_updated", !.tx = tx]
    /\ UNCHANGED <<projects_data, projects_territory_data, project_id_seq,
                   project_territory_id_seq, now, tvars, qvars>>

\* Lines 196-203: the update of projects_data, skipped when nothing is set.
PatchUpdateProject ==
    /\ conn.pc = "patch_selected"
    /\ LET columns == new_values_for_project(conn.project)
           values == [f \in columns \cup {"updated_at"} |->
                        IF f = "updated_at" THEN conn.time
                        ELSE conn.project.values[f]]
           tx == IF columns # {}
                 THEN UpdateProject(conn.tx, conn.project_id,
                                    columns \cup {"updated_at"}, values)
                 ELSE conn.tx
       IN  conn' = [conn EXCEPT !.pc = "patch_project_updated", !.tx = tx]
    /\ UNCHANGED <<projects_data, projects_territory_data, project_id_seq,
                   project_territory_id_seq, now, tvars, qvars>>

\* Lines 205-211: the update of projects_territory_data, skipped when
\* nothing is set.
PatchUpdateTerritory ==
    /\ conn.pc = "patch_project_updated"
    /\ LET columns == new_values_for_territory(conn.project)
       IN  conn' =
             IF columns = {}
             THEN [conn EXCEPT !.pc = "patch_territory_updated"]
             ELSE IF columns \cap conn.project.partial.null_fields
                        \cap NotNullColumns # {}
             THEN Raised(conn, "integrity_error")
             ELSE LET tx == UpdateDetail(conn.tx, conn.project_territory_id,
                                columns, PatchTerritoryValues(conn.project))
                  IN  IF ConstraintsHold(tx)
                      THEN [conn EXCEPT !.pc = "patch_territory_updated",
                                        !.tx = tx]
                      ELSE Raised(conn, "integrity_error")
    /\ UNCHANGED <<projects_data, projects_territory_data, project_id_seq,
                   project_territory_id_seq, now, tvars, qvars>>

\* Line 213.
PatchCommit ==
    /\ conn.pc = "patch_territory_updated"
    /\ Commit
    /\ conn' = [conn EXCEPT !.pc = "patch_committed"]
    /\ UNCHANGED <<project_id_seq, project_territory_id_seq, now, tvars, qvars>>

\* Line 215.
PatchReturn ==
    /\ conn.pc = "patch_committed"
    /\ conn' = Returned(conn, get_project_by_id_from_db(conn.tx,
                                                        conn.project_id))
    /\ UNCHANGED <<projects_data, projects_territory_data, project_id_seq,
                   project_territory_id_seq, now, tvars, qvars>>

\* ------------------------------- entities associated with a territory
\* The tables read by the queries of territories.py lines 141-442, with the
\* columns those queries use.  db is a record of tables.
MaxServiceId == 3
MaxServiceType == 2

ServiceIds == 1..MaxServiceId
ServiceTypeIds == 1..MaxServiceType

\* The existence check each checking query starts with (e.g. lines 177-180):
\* the territory row is selected and scalar() must be truthy.
is_found_territory_id(db, territory_id) ==
    Truthy(ScalarId(SelectById(db.territories_data, territory_id)))

\* An optional filter: .where(column == value) is added only when the value
\* is not None (e.g. lines 161-162).
OptionalFilter(col, val) == val = NULL \/ SqlEq(col, val)

\* A join condition a.x == b.x: never true on NULL.
JoinEq(a, b) == a # NULL /\ b # NULL /\ a = b

\* services_data JOIN urban_objects_data JOIN object_geometries_data
\* WHERE object_geometries_data.territory_id == territory_id, one record per
\* joined row (lines 149-159, 186-196, 219-228).
ServicesJoined(db, territory_id) ==
    LET pairs ==
          {p \in db.services_data \X db.urban_objects_data :
              /\ JoinEq(p[1].service_id, p[2].service_id)
              /\ \E og \in db.object_geometries_data :
                    /\ JoinEq(p[2].object_geometry_id, og.object_geometry_id)
                    /\ SqlEq(og.territory_id, territory_id)}
    IN  {[service |-> p[1], urban_object_id |-> p[2].urban_object_id] :
            p \in pairs}

\* physical_objects_data JOIN urban_objects_data JOIN object_geometries_data
\* (lines 322-331, 363-372): the physical objects placed in the territory.
PhysicalObjectsJoined(db, territory_id) ==
    {po \in db.physical_objects_data :
        \E uo \in db.urban_objects_data, og \in db.object_geometries_data :
           /\ JoinEq(po.physical_object_id, uo.physical_object_id)
           /\ JoinEq(uo.object_geometry_id, og.object_geometry_id)
           /\ SqlEq(og.territory_id, territory_id)}

NotFoundTerritory == [status |-> "404_territory", rows |-> {}, value |-> NULL]
Listed(ids) == [status |-> "ok", rows |-> ids, value |-> NULL]

\* Lines 141-166: no existence check.
get_services_by_territory_id_from_db(db, territory_id, service_type_id) ==
    Listed({j.service.service_id :
              j \in {x \in ServicesJoined(db, territory_id) :
                       OptionalFilter(x.service.service_type_id,
                                      service_type_id)}})

\* Lines 169-203.
get_services_with_geometry_by_territory_id_from_db(db, territory_id, service_type_id) ==
    IF ~is_found_territory_id(db, territory_id) THEN NotFoundTerritory
    ELSE get_services_by_territory_id_from_db(db, territory_id,
                                              service_type_id)

\* func.sum over a set of joined rows; NULL (None) over no row.
RECURSIVE SumCapacity(_)
SumCapacity(joined) ==
    IF joined = {} THEN 0
    ELSE LET j == CHOOSE x \in joined : TRUE
         IN  j.service.capacity_real + SumCapacity(joined \ {j})

Sum(joined) == IF joined = {} THEN NULL ELSE SumCapacity(joined)

\* Line 229: services_data.c.service_type_id == service_type_id is always
\* part of the WHERE clause; with None it is rendered IS NULL.
CapacityTypeFilter(col, service_type_id) == SqlEq(col, service_type_id)

\* Lines 206-234.
get_services_capacity_by_territory_id_from_db(db, territory_id, service_type_id) ==
    IF ~is_found_territory_id(db, territory_id) THEN NotFoundTerritory
    ELSE [status |-> "ok", rows |-> {},
          value |-> Sum({j \in ServicesJoined(db, territory_id) :
                           CapacityTypeFilter(j.service.service_type_id,
                                              service_type_id)})]

\* Lines 237-260.
get_indicators_by_territory_id_from_db(db, territory_id) ==
    IF ~is_found_territory_id(db, territory_id) THEN NotFoundTerritory
    ELSE Listed({ind.indicator_id :
                   ind \in {i \in db.indicators_dict :
                      \E tv \in db.territory_indicators_data :
                         /\ JoinEq(tv.indicator_id, i.indicator_id)
                         /\ SqlEq(tv.territory_id, territory_id)}})

\* Lines 263-299.
get_indicator_values_by_territory_id_from_db(db, territory_id, date_type, date_value) ==
    IF ~is_found_territory_id(db, territory_id) THEN NotFoundTerritory
    ELSE Listed({tv.indicator_id :
                   tv \in {v \in db.territory_indicators_data :
                      /\ SqlEq(v.territory_id, territory_id)
                      /\ OptionalFilter(v.date_type, date_type)
                      /\ OptionalFilter(v.date_value, date_value)}})

\* Lines 302-338.
get_physical_objects_by_territory_id_from_db(db, territory_id, physical_object_type) ==
    IF ~is_found_territory_id(db, territory_id) THEN NotFoundTerritory
    ELSE Listed({po.physical_object_id :
                   po \in {x \in PhysicalObjectsJoined(db, territory_id) :
                      OptionalFilter(x.physical_object_type_id,
                                     physical_object_type)}})

\* Lines 341-381.
get_physical_objects_with_geometry_by_territory_id_from_db(db, territory_id, physical_object_type) ==
    get_physical_objects_by_territory_id_from_db(db, territory_id,
                                                 physical_object_type)

\* Lines 384-417.
get_living_buildings_with_geometry_by_territory_id_from_db(db, territory_id) ==
    IF ~is_found_territory_id(db, territory_id) THEN NotFoundTerritory
    ELSE Listed({lb.living_building_id :
                   lb \in {b \in db.living_buildings_data :
                      \E uo \in db.urban_objects_data,
                         og \in db.object_geometries_data :
                         /\ JoinEq(b.physical_object_id,
                                   uo.physical_object_id)
                         /\ JoinEq(uo.object_geometry_id,
                                   og.object_geometry_id)
                         /\ SqlEq(og.territory_id, territory_id)}})

\* Lines 420-442: no existence check.
get_functional_zones_by_territory_id_from_db(db, territory_id, functional_zone_type_id) ==
    Listed({fz.functional_zone_id :
              fz \in {z \in db.functional_zones_data :
                 /\ SqlEq(z.territory_id, territory_id)
                 /\ OptionalFilter(z.functional_zone_type_id,
                                   functional_zone_type_id)}})

\* The databases the queries are tried on: the territories in `existing`;
\* one service, physical object, living building and indicator per
\* ServiceIds, service i having capacity_real i; services with an odd id
\* are placed (urban object and geometry) in territory 1 and the others in
\* territory 2, when that territory exists; one functional zone and one
\* indicator value per existing territory.  Every territory_id column
\* references an existing territory.
PlaceOf(i) == ((i - 1) % 2) + 1

AssociatedDb(existing, type_of) ==
    LET placed == {i \in ServiceIds : PlaceOf(i) \in existing}
    IN  [territories_data |->
           {TerritoryRow(t, [territory_type_id |-> 1, parent_id |-> 0]) :
              t \in existing},
         services_data |->
           {[service_id |-> i, service_type_id |-> type_of[i],
             capacity_real |-> i] : i \in ServiceIds},
         object_geometries_data |->
           {[object_geometry_id |-> i, territory_id |-> PlaceOf(i)] :
              i \in placed},
         urban_objects_data |->
           {[urban_object_id |-> i, service_id |-> i,
             physical_object_id |-> i, object_geometry_id |-> i] :
              i \in placed},
         physical_objects_data |->
           {[physical_object_id |-> i, physical_object_type_id |-> type_of[i]] :
              i \in ServiceIds},
         living_buildings_data |->
           {[living_building_id |-> i, physical_object_id |-> i] :
              i \in ServiceIds},
         indicators_dict |-> {[indicator_id |-> i] : i \in ServiceIds},
         territory_indicators_data |->
           {[indicator_id |-> 1, territory_id |-> t, date_type |-> 1,
             date_value |-> 1] : t \in existing},
         functional_zones_data |->
           {[functional_zone_id |-> t, territory_id |-> t,
             functional_zone_type_id |-> 1] : t \in existing}]

\* The calls tried: a database, a territory id and an optional type filter.
AssociatedCalls ==
    {[db |-> AssociatedDb(existing, type_of),
      territory_id |-> territory_id,
      type_id |-> type_id] :
        existing \in SUBSET TerritoryIds,
        type_of \in [ServiceIds -> ServiceTypeIds],
        territory_id \in TerritoryIds,
        type_id \in {NULL} \cup ServiceTypeIds}

NoResult == [fn |-> "none", status |-> "none", rows |-> {}, value |-> NULL]

Answer(fn, r) ==
    [fn |-> fn, status |-> r.status, rows |-> r.rows, value |-> r.value]

\* One action per query: the query is applied to the call's arguments.
QueryServices ==
    /\ result.fn = "none"
    /\ result' = Answer("get_services_by_territory_id_from_db",
           get_services_by_territory_id_from_db(
                  args.db, args.territory_id, args.type_id))
    /\ UNCHANGED <<tvars, pvars, reader, args>>

QueryServicesWithGeometry ==
    /\ result.fn = "none"
    /\ result' = Answer("get_services_with_geometry_by_territory_id_from_db",
           get_services_with_geometry_by_territory_id_from_db(
                  args.db, args.territory_id, args.type_id))
    /\ UNCHANGED <<tvars, pvars, reader, args>>

QueryServicesCapacity ==
    /\ result.fn = "none"
    /\ result' = Answer("get_services_capacity_by_territory_id_from_db",
           get_services_capacity_by_territory_id_from_db(
                  args.db, args.territory_id, args.type_id))
    /\ UNCHANGED <<tvars, pvars, reader, args>>

QueryIndicators ==
    /\ result.fn = "none"
    /\ result' = Answer("get_indicators_by_territory_id_from_db",
           get_indicators_by_territory_id_from_db(args.db, args.territory_id))
    /\ UNCHANGED <<tvars, pvars, reader, args>>

QueryIndicatorValues ==
    /\ result.fn = "none"
    /\ result' = Answer("get_indicator_values_by_territory_id_from_db",
           get_indicator_values_by_territory_id_from_db(
                  args.db, args.territory_id, args.type_id, NULL))
    /\ UNCHANGED <<tvars, pvars, reader, args>>

QueryPhysicalObjects ==
    /\ result.fn = "none"
    /\ result' = Answer("get_physical_objects_by_territory_id_from_db",
           get_physical_objects_by_territory_id_from_db(
                  args.db, args.territory_id, args.type_id))
    /\ UNCHANGED <<tvars, pvars, reader, args>>

QueryPhysicalObjectsWithGeometry ==
    /\ result.fn = "none"
    /\ result' = Answer("get_physical_objects_with_geometry_by_territory_id_from_db",
           get_physical_objects_with_geometry_by_territory_id_from_db(
                  args.db, args.territory_id, args.type_id))
    /\ UNCHANGED <<tvars, pvars, reader, args>>

QueryLivingBuildings ==
    /\ result.fn = "none"
    /\ result' = Answer("get_living_buildings_with_geometry_by_territory_id_from_db",
           get_living_buildings_with_geometry_by_territory_id_from_db(
                  args.db, args.territory_id))
    /\ UNCHANGED <<tvars, pvars, reader, args>>

QueryFunctionalZones ==
    /\ result.fn = "none"
    /\ result' = Answer("get_functional_zones_by_territory_id_from_db",
           get_functional_zones_by_territory_id_from_db(
                  args.db, args.territory_id, args.type_id))
    /\ UNCHANGED <<tvars, pvars, reader, args>>

\* ------------------------------------------ Geometry to shapely and back
\* g.as_shapely_geometry() on the Geometry in args.
AsShapely ==
    /\ result.fn = "none"
    /\ result' = [fn |-> "as_shapely_geometry", status |-> "ok", rows |-> {},
                  value |-> as_shapely_geometry(args)]
    /\ UNCHANGED <<tvars, pvars, reader, args>>

\* Geometry.from_shapely_geometry on the shapely object just built.
FromShapely ==
    /\ result.fn = "as_shapely_geometry"
    /\ result' = [fn |-> "from_shapely_geometry", status |-> "ok",
                  rows |-> {}, value |-> from_shapely_geometry(result.value)]
    /\ UNCHANGED <<tvars, pvars, reader, args>>

\* ----------------------------------------------------------- Feature
\* A row is a mapping from column names to values.  A value is None, a
\* number, a dict, or a str holding the JSON text of a dict; dicts are
\* numbered, Dict(g) being the GeoJSON dict of the point PointOf(g).
None == [kind |-> "None", v |-> NULL]
Number(n) == [kind |-> "int", v |-> n]
Dict(g) == [kind |-> "dict", v |-> g]
Text(g) == [kind |-> "str", v |-> g]

\* isinstance(geometry, str) and json.loads(geometry), lines 145-146.
Loaded(value) == IF value.kind = "str" THEN Dict(value.v) ELSE value

\* The mapping restricted to the given names.
Restrict(mapping, names) == [name \in names |-> mapping[name]]

NotNone(mapping) == {name \in DOMAIN mapping : mapping[name].kind # "None"}

NoFeature == [geometry |-> None, properties |-> <<>>]
Failed(error) == [status |-> error, feature |-> NoFeature]

\* cls(geometry=geometry, properties=properties): geometry is a required
\* Geometry field, so None is rejected by validation.
NewFeature(geometry, properties) ==
    IF geometry.kind # "dict" THEN Failed("ValidationError")
    ELSE [status |-> "ok",
          feature |-> [geometry |-> geometry, properties |-> properties]]

\* Feature.from_dict, lines 130-147: None values are dropped first, then the
\* geometry column is taken out of what is left.
from_dict(feature, geometry_column, include_nulls) ==
    LET properties == IF include_nulls THEN feature
                      ELSE Restrict(feature, NotNone(feature))
    IN  IF geometry_column \notin DOMAIN properties THEN Failed("KeyError")
        ELSE NewFeature(Loaded(properties[geometry_column]),
                        Restrict(properties,
                                 DOMAIN properties \ {geometry_column}))

\* Mutant of line 164: the geometry column is not left out of properties.
from_row_KeepsGeometryColumn(row, geometry_column, include_nulls) ==
    IF geometry_column \notin DOMAIN row THEN Failed("KeyError")
    ELSE NewFeature(Loaded(row[geometry_column]),
                    IF include_nulls THEN row
                    ELSE Restrict(row, NotNone(row)))

\* Feature.from_row, lines 149-168: the geometry column is read first, then
\* the other columns are collected, without the None ones when asked.
from_row(row, geometry_column, include_nulls) ==
    IF geometry_column \notin DOMAIN row THEN Failed("KeyError")
    ELSE NewFeature(Loaded(row[geometry_column]),
                    IF include_nulls
                    THEN Restrict(row, DOMAIN row \ {geometry_column})
                    ELSE Restrict(row, NotNone(row) \ {geometry_column}))

\* The mappings tried: any of the columns geometry, centre_point and name;
\* the first two hold a dict, its JSON text or None, name a number or None.
ColumnValues(name) ==
    IF name = "name" THEN {None, Number(1)}
    ELSE {None, Dict(1), Text(1)}

Mappings ==
    UNION {{m \in [names -> {None, Number(1), Dict(1),
                             Text(1)}] :
              \A name \in names : m[name] \in ColumnValues(name)} :
           names \in SUBSET {"geometry", "centre_point", "name"}}

FeatureCalls ==
    [feature : Mappings,
     geometry_column : {"geometry", "centre_point"},
     include_nulls : BOOLEAN]

Pending == [status |-> "none", feature |-> NoFeature]

\* Feature.from_dict(feature, geometry_column, include_nulls).
FromDict ==
    /\ result.from_dict = Pending
    /\ result' = [result EXCEPT
                    !.from_dict = from_dict(args.feature, args.geometry_column,
                                            args.include_nulls)]
    /\ UNCHANGED <<tvars, pvars, reader, args>>

\* Feature.from_row(feature, geometry_column, include_nulls).
FromRow ==
    /\ result.from_row = Pending
    /\ result' = [result EXCEPT
                    !.from_row = from_row(args.feature, args.geometry_column,
                                          args.include_nulls)]
    /\ UNCHANGED <<tvars, pvars, reader, args>>

\* ------------------------------------------- GeoJSONResponse.from_list
\* The iterable given as `features`: the rows it yields, whether it is a
\* one-shot iterator (iter(features) is features itself) or a list (every
\* iter(features) starts again), and whether its rows are SQLAlchemy Rows.
MaxRows == 2

RowChoices ==
    {[geometry |-> Dict(g), name |-> name] :
        g \in Versions, name \in {None, Number(1)}}

RowLists == UNION {[1..n -> RowChoices] : n \in 0..MaxRows}

FromListCalls ==
    [features : RowLists, one_shot : BOOLEAN, is_row : BOOLEAN,
     include_nulls : BOOLEAN]

\* Rows 1..consumed of the iterable have been taken from it.
NotStarted ==
    [fn |-> "none", consumed |-> 0, func |-> "none", status |-> "none",
     features |-> <<>>]

\* Line 213: next(iter(features), None) takes the first row, which a
\* one-shot iterator does not yield again; from_row is chosen when that row
\* is a Row, from_dict otherwise (also on an empty iterable).
FromListPeek ==
    /\ result.fn = "none"
    /\ result' = [result EXCEPT
                    !.fn = "peeked",
                    !.consumed = IF args.one_shot /\ Len(args.features) > 0
                                 THEN 1 ELSE 0,
                    !.func = IF Len(args.features) > 0 /\ args.is_row
                             THEN "from_row" ELSE "from_dict"]
    /\ UNCHANGED <<tvars, pvars, reader, args>>

\* Lines 214-220: the comprehension iterates what the iterable still yields.
FromListBuild ==
    /\ result.fn = "peeked"
    /\ LET rest == SubSeq(args.features, result.consumed + 1,
                          Len(args.features))
           built == [i \in DOMAIN rest |->
                       IF result.func = "from_row"
                       THEN from_row(rest[i], "geometry", args.include_nulls)
                       ELSE from_dict(rest[i], "geometry",
                                      args.include_nulls)]
       IN  result' =
             IF \E i \in DOMAIN built : built[i].status # "ok"
             THEN [result EXCEPT !.fn = "from_list", !.status = "error"]
             ELSE [result EXCEPT
                     !.fn = "from_list",
                     !.status = "ok",
                     !.consumed = Len(args.features),
                     !.features = [i \in DOMAIN built |-> built[i].feature]]
    /\ UNCHANGED <<tvars, pvars, reader, args>>

\* ------------------- get_project_territory_by_id_from_db, as a request
\* The request runs two statements on its own connection.  Under READ
\* COMMITTED each statement reads what is committed when it runs, so a
\* delete_project_from_db may commit between the two.
IdleReader ==
    [pc |-> "idle", project_id |-> NULL, project_territory_id |-> NULL,
     details |-> NULL, result |-> "none", rows |-> {}]

\* Lines 79-83.
GetTerritorySelectProject ==
    /\ reader.pc = "idle"
    /\ \E project_id \in ProjectIds :
         LET found == SelectProject(Committed, project_id)
             r == [IdleReader EXCEPT !.project_id = project_id]
         IN  reader' =
               IF Cardinality(found) # 1
               THEN [r EXCEPT !.result = "404_project"]
               ELSE [r EXCEPT
                       !.pc = "project_selected",
                       !.project_territory_id =
                          (CHOOSE x \in found : TRUE).project_territory_id]
    /\ UNCHANGED <<tvars, pvars, args, result>>

\* Lines 85-97.
GetTerritorySelectDetail ==
    /\ reader.pc = "project_selected"
    /\ LET got == ProjectTerritoryResult(Committed,
                                         reader.project_territory_id)
       IN  reader' = [reader EXCEPT
                        !.pc = "idle",
                        !.details = Cardinality(SelectDetail(
                                        Committed,
                                        reader.project_territory_id)),
                        !.result = got.status,
                        !.rows = got.rows]
    /\ UNCHANGED <<tvars, pvars, args, result>>

\* ------------------------------------------------------- specifications
AllSessions == {1, 2}

InitTerritories ==
    /\ territories = {}
    /\ territory_id_seq = 0
    /\ sess = [s \in AllSessions |-> IdleSession]

InitProjects ==
    /\ projects_data = {}
    /\ projects_territory_data = {}
    /\ project_id_seq = 0
    /\ project_territory_id_seq = 0
    /\ now = 0
    /\ conn = IdleConn

\* No read-only call is in progress.
InitQueries ==
    /\ reader = IdleReader
    /\ args = NULL
    /\ result = NoResult

\* One client: requests run one after another.
Init == InitTerritories /\ InitProjects /\ InitQueries /\ sessions = {1}

\* Two clients whose requests interleave at every await.
InitConc ==
    InitTerritories /\ InitProjects /\ InitQueries /\ sessions = AllSessions

\* add_territory_to_db, statement by statement.
Next ==
    \/ \E s \in sessions : AddInsert(s)
    \/ \E s \in sessions : AddCommit(s)
    \/ \E s \in sessions : AddCheckParent(s)
    \/ \E s \in sessions : AddDelete(s)
    \/ \E s \in sessions : AddCommitDelete(s)

\* The territory requests of one client.
Spec == Init /\ [][Next]_vars

\* The territory requests of two clients.
SpecConc == InitConc /\ [][Next]_vars

\* The project requests, statement by statement, one request at a time.
NextProjects ==
    \/ PostInsertTerritory
    \/ PostInsertProject
    \/ PostCommit
    \/ PostReturn
    \/ DeleteSelect
    \/ DeleteProjectRow
    \/ DeleteTerritoryRow
    \/ DeleteCommit
    \/ PutSelect
    \/ PutUpdateTerritory
    \/ PutUpdateProject
    \/ PutCommit
    \/ PutReturn
    \/ PatchSelect
    \/ PatchUpdateProject
    \/ PatchUpdateTerritory
    \/ PatchCommit
    \/ PatchReturn

SpecProjects == Init /\ [][NextProjects]_vars

\* Projects are created and deleted on one connection while a second one
\* reads project territories.
NextRead ==
    \/ PostInsertTerritory
    \/ PostInsertProject
    \/ PostCommit
    \/ PostReturn
    \/ DeleteSelect
    \/ DeleteProjectRow
    \/ DeleteTerritoryRow
    \/ DeleteCommit
    \/ GetTerritorySelectProject
    \/ GetTerritorySelectDetail

SpecRead == Init /\ [][NextRead]_vars

\* One query on the entities associated with a territory, on a database
\* and with arguments chosen at the start.
InitAssociated ==
    /\ InitTerritories /\ InitProjects /\ sessions = {1}
    /\ reader = IdleReader
    /\ args \in AssociatedCalls
    /\ result = NoResult

NextAssociated ==
    \/ QueryServices
    \/ QueryServicesWithGeometry
    \/ QueryServicesCapacity
    \/ QueryIndicators
    \/ QueryIndicatorValues
    \/ QueryPhysicalObjects
    \/ QueryPhysicalObjectsWithGeometry
    \/ QueryLivingBuildings
    \/ QueryFunctionalZones

SpecAssociated == InitAssociated /\ [][NextAssociated]_vars

\* A Geometry is converted to shapely and back.
InitGeometry ==
    /\ InitTerritories /\ InitProjects /\ sessions = {1}
    /\ reader = IdleReader
    /\ args \in Geometries
    /\ result = NoResult

NextGeometry ==
    \/ AsShapely
    \/ FromShapely

SpecGeometry == InitGeometry /\ [][NextGeometry]_vars

\* A Feature is built from one mapping by both constructors.
InitFeature ==
    /\ InitTerritories /\ InitProjects /\ sessions = {1}
    /\ reader = IdleReader
    /\ args \in FeatureCalls
    /\ result = [from_dict |-> Pending, from_row |-> Pending]

NextFeature ==
    \/ FromDict
    \/ FromRow

SpecFeature == InitFeature /\ [][NextFeature]_vars

\* GeoJSONResponse.from_list on one iterable.
InitFromList ==
    /\ InitTerritories /\ InitProjects /\ sessions = {1}
    /\ reader = IdleReader
    /\ args \in FromListCalls
    /\ result = NotStarted

NextFromList ==
    \/ FromListPeek
    \/ FromListBuild

SpecFromList == InitFromList /\ [][NextFromList]_vars

\* ================================================================ claims
\* A session whose add_territory_to_db call has returned or raised.
Finished(s) == sess[s].pc = "idle" /\ sess[s].result # "none"

\* No call is in progress.
Quiescent == \A s \in sessions : sess[s].pc = "idle"

TerritoryIdsOf(rows) == {r.territory_id : r \in rows}

\* Whether following parent_id upwards from row r reaches territory p
\* (the parent relation's transitive closure, independent of the CTE).
RECURSIVE ChainReaches(_, _, _, _)
ChainReaches(rows, r, p, fuel) ==
    IF r.parent_id = p THEN TRUE
    ELSE IF fuel = 0 THEN FALSE
    ELSE \E up \in rows :
            /\ up.territory_id = r.parent_id
            /\ ChainReaches(rows, up, p, fuel - 1)

Descendants(rows, p) ==
    {r \in rows : ChainReaches(rows, r, p, Cardinality(rows))}

\* C1: a call whose parent_id is non-zero and names no territory that existed
\* when the call started fails with the parent-not-found error and leaves
\* the table as it was.
C1_MissingParentFailsAndRestores ==
    \A s \in sessions :
        (/\ Finished(s)
         /\ sess[s].territory.parent_id # 0
         /\ SelectById(sess[s].before, sess[s].territory.parent_id) = {})
        => (/\ sess[s].result = "404_parent"
            /\ territories = sess[s].before)

\* C2: (final clause of the claim, which the claim as a whole implies) once
\* every call has finished, every committed territory whose parent_id is
\* neither 0 nor absent references a committed territory.
C2_ValidOrAbsent ==
    Quiescent =>
        \A r \in territories :
            r.parent_id \notin {0, NULL}
            => r.parent_id \in TerritoryIdsOf(territories)

\* C3: between calls, for every existing non-zero parent_id the recursive
\* listing without type filter finishes and yields exactly the transitive
\* descendants of parent_id, the direct children among them.
C3_RecursiveIsDescendantSet ==
    Quiescent =>
        \A p \in TerritoryIdsOf(territories) :
            LET all == get_territories_by_parent_id_from_db(
                           territories, p, TRUE, NULL)
                direct == get_territories_by_parent_id_from_db(
                           territories, p, FALSE, NULL)
            IN  /\ all.status = "ok"
                /\ BagToSet(all.rows) = Descendants(territories, p)
                /\ BagToSet(direct.rows) \subseteq BagToSet(all.rows)

\* C4: at parent_id = 0 both listings give the same result with
\* get_all_levels = TRUE as with FALSE, for every type filter.
C4_RootIgnoresAllLevels ==
    /\ \A tt \in {NULL} \cup TerritoryTypeIds :
          get_territories_by_parent_id_from_db(territories, 0, TRUE, tt)
            = get_territories_by_parent_id_from_db(territories, 0, FALSE, tt)
    /\ get_territories_without_geometry_by_parent_id_from_db(
           territories, 0, TRUE)
         = get_territories_without_geometry_by_parent_id_from_db(
               territories, 0, FALSE)

\* C4 witness: a root with a child is committed and the root listing is
\* not empty, so descending from the roots would add rows.
C4_Witness ==
    /\ \E r \in territories, c \in territories :
          r.parent_id = 0 /\ c.parent_id = r.territory_id /\ c # r
    /\ get_territories_by_parent_id_from_db(
           territories, 0, TRUE, NULL).rows # EmptyBag

\* C5: the listing at parent_id = 0 yields exactly the committed territories
\* whose parent_id is absent (NULL) or 0, restricted to the type when one is
\* given.
C5_RootListsAbsentOrZeroParent ==
    \A tt \in {NULL} \cup TerritoryTypeIds :
        LET res == get_territories_by_parent_id_from_db(
                       territories, 0, FALSE, tt)
        IN  /\ res.status = "ok"
            /\ BagToSet(res.rows) =
                 {r \in territories :
                    /\ r.parent_id \in {NULL, 0}
                    /\ tt # NULL => r.territory_type_id = tt}

\* C6: a call whose parent_id is absent (NULL) or 0 succeeds and its row is
\* committed afterwards.
C6_RootSpecSucceeds ==
    \A s \in sessions :
        (Finished(s) /\ sess[s].territory.parent_id \in {NULL, 0})
        => (/\ sess[s].result = "ok"
            /\ TerritoryRow(sess[s].territory_id, sess[s].territory)
                 \in territories)


\* ------------------------------------------------------- project claims
\* The project request of kind op has returned or raised.
Ended(op) == conn.op = op /\ conn.pc = "idle"

TheRow(rows) == CHOOSE r \in rows : TRUE

\* C7: while post_project_to_db runs, its detail row is in the transaction
\* before any project row references it; after it succeeds,
\* get_project_by_id_from_db on the returned id gives the project returned,
\* whose project_territory_id is the id of the detail row this call
\* inserted, and get_project_territory_by_id_from_db gives that detail row.
C7_PostThenGet ==
    /\ (conn.op = "post" /\ conn.pc = "post_territory_inserted")
       => /\ SelectDetail(conn.tx, conn.project_territory_id) # {}
          /\ SelectDetail(conn.before, conn.project_territory_id) = {}
          /\ \A pr \in conn.tx.projects :
                pr.project_territory_id # conn.project_territory_id
    /\ (Ended("post") /\ conn.result = "ok")
       => LET got == get_project_by_id_from_db(Committed, conn.project_id)
              detail == get_project_territory_by_id_from_db(
                            Committed, conn.project_id)
          IN  /\ got.status = "ok"
              /\ got.rows = conn.returned
              /\ TheRow(got.rows).project_territory_id
                   = conn.project_territory_id
              /\ SelectDetail(conn.before, conn.project_territory_id) = {}
              /\ detail.status = "ok"
              /\ detail.rows =
                   {ProjectTerritoryDTO(TerritoryDetailRow(
                        conn.project_territory_id,
                        TerritoryValues(conn.project.project_territory_info)))}

\* C7 witness: a second project was created under an existing detail row.
C7_Witness ==
    /\ Ended("post") /\ conn.result = "ok"
    /\ conn.project.project_territory_info.parent_id # NULL
    /\ Cardinality(projects_data) = 2

\* A project id that is not committed and is not the one a running
\* post_project_to_db is about to commit.
Gone(project_id) ==
    /\ project_id <= project_id_seq
    /\ SelectProject(Committed, project_id) = {}
    /\ ~(conn.op = "post" /\ conn.pc = "post_project_inserted"
         /\ conn.project_id = project_id)

C8_AfterDelete ==
    /\ (Ended("delete") /\ conn.result = "ok")
       => /\ SelectProject(conn.before, conn.project_id) # {}
          /\ SelectProject(Committed, conn.project_id) = {}
          /\ SelectDetail(Committed, conn.project_territory_id) = {}
          /\ get_project_by_id_from_db(Committed, conn.project_id).status
               = "404_project"
          /\ get_project_territory_by_id_from_db(
                 Committed, conn.project_id).status = "404_project"
    /\ (Ended("delete") /\ SelectProject(conn.before, conn.project_id) = {})
       => /\ conn.result = "404_project"
          /\ Committed = conn.before

\* C8: after delete_project_from_db succeeds the project row and its detail
\* row are not committed and both reads of that id give not-found, now and
\* in every later state; on an absent id it gives not-found and changes
\* nothing.
C8_DeleteRemovesBoth ==
    /\ []C8_AfterDelete
    /\ [][\A project_id \in ProjectIds :
            Gone(project_id) =>
               get_project_by_id_from_db(Committed, project_id)'
                 = [status |-> "404_project", rows |-> {}]]_vars

\* C8 witness: a delete succeeded while another project is still there.
C8_Witness ==
    /\ Ended("delete") /\ conn.result = "ok"
    /\ projects_data # {}

\* C9: at every step of delete_project_from_db on an existing project the
\* committed database holds the project row exactly when it holds its
\* detail row, and when the detail delete fails the committed database is
\* the one the request started from, project row included.
C9_DeleteIsOneTransaction ==
    (conn.op = "delete" /\ SelectProject(conn.before, conn.project_id) # {})
    => /\ (SelectProject(Committed, conn.project_id) = {})
            <=> (SelectDetail(Committed, conn.project_territory_id) = {})
       /\ (conn.pc = "idle" /\ conn.result = "integrity_error")
            => /\ Committed = conn.before
               /\ SelectProject(Committed, conn.project_id) # {}

\* C9 witness: the detail delete failed because another detail row names
\* the project's detail row as its parent.
C9_Witness ==
    /\ Ended("delete") /\ conn.result = "integrity_error"
    /\ \E d \in projects_territory_data :
          /\ d.parent_id = conn.project_territory_id
          /\ d.project_territory_id # conn.project_territory_id

\* A patch body that sets name and nothing else.
OnlyName(project) ==
    project.present = {"name"} /\ project.partial \in NoTerritoryChange

\* C10: after patch_project_to_db with only name set succeeds, the project
\* row is the old one with the new name and updated_at set to the time of
\* the request (later than the old one), and every other project row and
\* the whole detail table are unchanged.
C10_PatchNameOnly ==
    (Ended("patch") /\ conn.result = "ok" /\ OnlyName(conn.project))
    => LET old == TheRow(SelectProject(conn.before, conn.project_id))
           new == [old EXCEPT !.name = conn.project.values.name,
                              !.updated_at = conn.time]
       IN  /\ projects_data = (conn.before.projects \ {old}) \cup {new}
           /\ old.updated_at < new.updated_at
           /\ projects_territory_data = conn.before.details
           /\ conn.returned = {new}

\* C10 witness: such a patch succeeded and the name changed.
C10_Witness ==
    /\ Ended("patch") /\ conn.result = "ok" /\ OnlyName(conn.project)
    /\ TheRow(SelectProject(conn.before, conn.project_id)).name
         # conn.project.values.name

\* The patched project row: the columns named in the body take the body's
\* values, updated_at the time of the request.
PatchedProject(old, project, time) ==
    [f \in DOMAIN old |->
        IF f \in project.present THEN project.values[f]
        ELSE IF f = "updated_at" THEN time
        ELSE old[f]]

\* The patched detail row: the columns set in project_territory_info take
\* the values given.
PatchedDetail(old, project) ==
    [f \in DOMAIN old |->
        IF f \in project.partial.fields_set
        THEN PatchTerritoryValues(project)[f] ELSE old[f]]

\* C11: patch_project_to_db writes only what the body names.  When no
\* project field is set the project table stays as it was, updated_at
\* included, and a successful call changes exactly the set columns of the
\* detail row; when no detail field is set the detail table stays as it was
\* and a successful call changes exactly the present columns (and
\* updated_at) of the project row; on an absent project_id the call gives
\* not-found and the committed database is unchanged.
C11_PatchAppliesOnlyPresent ==
    Ended("patch") =>
      LET project == conn.project
          olds == SelectProject(conn.before, conn.project_id)
      IN  /\ (olds = {})
               => conn.result = "404_project" /\ Committed = conn.before
          /\ (olds # {} /\ project.present = {})
               => /\ projects_data = conn.before.projects
                  /\ conn.result = "ok" =>
                       LET old == TheRow(SelectDetail(
                                      conn.before, conn.project_territory_id))
                       IN  projects_territory_data =
                             (conn.before.details \ {old})
                               \cup {PatchedDetail(old, project)}
          /\ (olds # {} /\ new_values_for_territory(project) = {})
               => /\ projects_territory_data = conn.before.details
                  /\ (conn.result = "ok" /\ project.present # {}) =>
                       projects_data =
                         (conn.before.projects \ {TheRow(olds)})
                           \cup {PatchedProject(TheRow(olds), project,
                                                conn.time)}

\* C11 witness: a patch that sets only detail fields succeeded and changed
\* the detail row.
C11_Witness ==
    /\ Ended("patch") /\ conn.result = "ok"
    /\ conn.project.present = {}
    /\ new_values_for_territory(conn.project) # {}
    /\ projects_territory_data # conn.before.details

\* C12: put_project_to_db on an absent project_id gives not-found and the
\* committed database is unchanged; after it succeeds the detail row holds
\* the body's parent_id, geometry, centre_point and properties, the project
\* row holds the body's fields with updated_at set to the time of the
\* request and project_id, project_territory_id and created_at as before,
\* every other row is unchanged, and the row is what the call returns.
C12_PutOverwrites ==
    Ended("put") =>
      LET olds == SelectProject(conn.before, conn.project_id)
      IN  /\ (olds = {})
               => conn.result = "404_project" /\ Committed = conn.before
          /\ (olds # {} /\ conn.result = "ok") =>
               LET old == TheRow(olds)
                   new == [ProjectRow(old.project_id, conn.project,
                                      old.project_territory_id, conn.time)
                             EXCEPT !.created_at = old.created_at]
                   oldd == TheRow(SelectDetail(conn.before,
                                               old.project_territory_id))
                   newd == TerritoryDetailRow(
                               old.project_territory_id,
                               TerritoryValues(
                                   conn.project.project_territory_info))
               IN  /\ projects_data = (conn.before.projects \ {old})
                                        \cup {new}
                   /\ projects_territory_data =
                        (conn.before.details \ {oldd}) \cup {newd}
                   /\ new.updated_at = conn.time
                   /\ old.updated_at < new.updated_at
                   /\ conn.returned = {new}

\* C12 witness: a put succeeded on a project created earlier, with a
\* different name and a different geometry.
C12_Witness ==
    /\ Ended("put") /\ conn.result = "ok"
    /\ LET old == TheRow(SelectProject(conn.before, conn.project_id))
           oldd == TheRow(SelectDetail(conn.before, old.project_territory_id))
       IN  /\ old.name # conn.project.name
           /\ oldd.geometry
                # TheRow(SelectDetail(Committed,
                                      old.project_territory_id)).geometry

\* C13: a finished get_project_territory_by_id_from_db request whose project
\* lookup or whose detail lookup found no row failed with a not-found
\* error.
C13_EitherMissIsNotFound ==
    (/\ reader.pc = "idle"
     /\ reader.project_id # NULL
     /\ \/ reader.project_territory_id = NULL
        \/ reader.details = 0)
    => reader.result \in {"404_project", "404_territory"}

\* C14: every query on the entities of a territory other than
\* get_services_by_territory_id_from_db, asked for a territory id that has
\* no row in territories_data, fails with not-found.
C14_AllButPlainServicesValidate ==
    (/\ result.fn \notin {"none", "get_services_by_territory_id_from_db"}
     /\ SelectById(args.db.territories_data, args.territory_id) = {})
    => result.status = "404_territory"

\* C15: get_services_capacity_by_territory_id_from_db without a service
\* type, on an existing territory, gives the sum of capacity_real over all
\* services joined to the territory, whatever their type.
C15_CapacityWithoutTypeSumsAll ==
    (/\ result.fn = "get_services_capacity_by_territory_id_from_db"
     /\ args.type_id = NULL
     /\ SelectById(args.db.territories_data, args.territory_id) # {})
    => /\ result.status = "ok"
       /\ result.value = Sum(ServicesJoined(args.db, args.territory_id))

\* C16: for a Geometry g of any of the four tags,
\* Geometry.from_shapely_geometry(g.as_shapely_geometry()) has the tag and
\* the coordinates of g.
C16_RoundTrip ==
    result.fn = "from_shapely_geometry"
    => /\ result.value.type = args.type
       /\ result.value.coordinates = args.coordinates

\* C17: when GeoJSONResponse.from_list has finished, its features list has
\* one Feature per row of the iterable, the i-th built from the i-th row,
\* whether the iterable is a list or a one-shot iterator.
C17_OneFeaturePerRow ==
    result.fn = "from_list"
    => /\ result.status = "ok"
       /\ Len(result.features) = Len(args.features)
       /\ \A i \in DOMAIN args.features :
             result.features[i]
               = from_dict(args.features[i], "geometry",
                           args.include_nulls).feature

\* C18: once both constructors have run on the same mapping, one has built
\* a Feature exactly when the other has, and then both built the same one:
\* its geometry is the value of the geometry column, decoded when it is
\* text; its properties are the other columns, never the geometry column;
\* with include_nulls false exactly the None-valued ones are left out.
C18_FromDictEqualsFromRow ==
    (result.from_dict # Pending /\ result.from_row # Pending)
    => /\ (result.from_dict.status = "ok") <=> (result.from_row.status = "ok")
       /\ result.from_row.status = "ok" =>
            LET built == result.from_row.feature
                others == DOMAIN args.feature \ {args.geometry_column}
                kept == IF args.include_nulls THEN others
                        ELSE {name \in others :
                                args.feature[name].kind # "None"}
            IN  /\ result.from_dict.feature = built
                /\ built.geometry
                     = Dict(args.feature[args.geometry_column].v)
                /\ DOMAIN built.properties = kept
                /\ \A name \in kept :
                      built.properties[name] = args.feature[name]

\* C18 witness: both constructors built a Feature from a mapping whose
\* geometry is text and that has a None-valued column, with include_nulls
\* false.
C18_Witness ==
    /\ result.from_dict.status = "ok" /\ result.from_row.status = "ok"
    /\ ~args.include_nulls
    /\ args.feature[args.geometry_column].kind = "str"
    /\ \E name \in DOMAIN args.feature : args.feature[name].kind = "None"

\* C19: a finished add_territory_to_db call has the outcome of validating
\* the parent before inserting: when parent_id is 0 or names a territory
\* that existed when the call started, it succeeded and the table is the
\* one before the call plus the new row; otherwise it failed with the
\* parent-not-found error and the table is the one before the call.
C19_SameAsValidateFirst ==
    \A s \in sessions :
        Finished(s) =>
          IF \/ sess[s].territory.parent_id = 0
             \/ SelectById(sess[s].before, sess[s].territory.parent_id) # {}
          THEN /\ sess[s].result = "ok"
               /\ territories = sess[s].before \cup
                     {TerritoryRow(sess[s].territory_id, sess[s].territory)}
          ELSE /\ sess[s].result = "404_parent"
               /\ territories = sess[s].before

\* C20: between calls, no territory is reached from itself by following
\* parent_id, and for every existing territory the recursive listing of
\* its descendants finishes.
C20_NoParentCycle ==
    Quiescent =>
        \A r \in territories :
            /\ ~ChainReaches(territories, r, r.territory_id,
                             Cardinality(territories))
            /\ get_territories_by_parent_id_from_db(
                   territories, r.territory_id, TRUE, NULL).status = "ok"

\* C21: between calls, for every existing parent_id whose descendant
\* expansion finishes and every territory type, the listing with
\* get_all_levels and that type yields exactly the descendants of
\* parent_id that have the type, each once.
C21_RecursiveTypeFilter ==
    Quiescent =>
        \A p \in TerritoryIdsOf(territories), tt \in TerritoryTypeIds :
            SelectRecursive(territories, p).status = "ok" =>
                LET res == get_territories_by_parent_id_from_db(
                               territories, p, TRUE, tt)
                IN  /\ res.status = "ok"
                    /\ BagToSet(res.rows) =
                         {r \in Descendants(territories, p) :
                            r.territory_type_id = tt}
                    /\ \A r \in BagToSet(res.rows) :
                          CopiesIn(r, res.rows) = 1

\* C22: in every committed state of the project store, whatever requests
\* ran and wherever they failed, every project references an existing
\* detail row, no two projects reference the same detail row, and every
\* detail row is referenced by exactly one project.
C22_Ownership ==
    /\ \A pr \in projects_data :
          SelectDetail(Committed, pr.project_territory_id) # {}
    /\ \A p1 \in projects_data, p2 \in projects_data :
          p1.project_territory_id = p2.project_territory_id => p1 = p2
    /\ \A d \in projects_territory_data :
          Cardinality({pr \in projects_data :
                         pr.project_territory_id = d.project_territory_id}) = 1

\* C22 witness: two projects are committed, the detail row of one is the
\* parent of the other's, and the last request failed after its first
\* write.
C22_Witness ==
    /\ Cardinality(projects_data) = 2
    /\ \E d \in projects_territory_data, e \in projects_territory_data :
          d # e /\ e.parent_id = d.project_territory_id
    /\ conn.pc = "idle" /\ conn.result = "integrity_error"
    /\ conn.op \in {"delete", "patch"}
=============================================================================
